---- MODULE Spec2Model ----
(***************************************************************************)
(* Model of functorch/csrc/DynamicLayer.cpp: the thread-local stack of     *)
(* DynamicLayers, the process-wide liveness map kDynMetaDataSingleton, the *)
(* thread's LocalDispatchKeySet, and the two boxed fallbacks               *)
(* dynamicLayerFrontFallback / dynamicLayerBackFallback that every         *)
(* operator call passes through while a transform is active.               *)
(*                                                                         *)
(* A call is a recursion in the source (front -> back -> front -> ... ->   *)
(* kernel and back out).  The recursion is modelled by `frames`, the       *)
(* sequence of handler activations, and `pc`, which says whether a         *)
(* callBoxed is being dispatched, returning, or unwinding an exception.    *)
(***************************************************************************)
EXTENDS Integers, Sequences, FiniteSets, TLC

\* ------------------------------------------------------------------ bounds
\* Deepest layer stack the driver builds.
MaxDepth == 2
\* Number of liveness flags (= successful pushes) allocated in one run.
MaxFlags == 3

\* ------------------------------------------------------- optional<T> values
\* c10::optional<T>: the empty sequence is nullopt, <<v>> holds v.
None == <<>>
Some(v) == <<v>>
has_value(o) == o # <<>>
value_of(o) == o[1]

\* ------------------------------------------------------------ dispatch keys
kDynamicLayerFrontModeKey == "FuncTorchDynamicLayerFrontMode"
kDynamicLayerBackModeKey == "FuncTorchDynamicLayerBackMode"
kGradWrapperKey == "FuncTorchGradWrapper"
kBatchedKey == "FuncTorchBatched"
kVmapModeKey == "FuncTorchVmapMode"
ADInplaceOrView == "ADInplaceOrView"
\* DispatchKey::Autograd, the alias key a Differentiation layer is built with
Autograd == "Autograd"
\* the runtime autograd keys (c10::autograd_dispatch_keyset)
autograd_dispatch_keyset == {"AutogradCPU", "AutogradOther"}
\* a key this file never names
BackendSelect == "BackendSelect"

all_dynlayer_keyset ==
    {kDynamicLayerFrontModeKey, kDynamicLayerBackModeKey, kGradWrapperKey,
     kBatchedKey, ADInplaceOrView} \cup autograd_dispatch_keyset

\* c10::impl::tls_set_dispatch_key_included on a LocalDispatchKeySet value
tls_set_dispatch_key_included(ks, key, included) ==
    [ks EXCEPT !.included = IF included THEN @ \cup {key} ELSE @ \ {key}]

setDynamicLayerFrontBackKeysIncluded(ks, included) ==
    tls_set_dispatch_key_included(
        tls_set_dispatch_key_included(ks, kDynamicLayerFrontModeKey, included),
        kDynamicLayerBackModeKey, included)


\* ------------------------------------------------------------------ tensors
\* A Tensor is a base value under a chain of TensorWrappers, outermost first.
\* base "x" is a raw tensor of the caller, "y" a raw tensor made by a kernel,
\* "undef" the undefined tensor.  Each wrapper carries its level and the
\* shared_ptr<bool> life handle it was created with (an index into flags).
RawX == [base |-> "x", wraps |-> <<>>]
RawY == [base |-> "y", wraps |-> <<>>]
UndefinedTensor == [base |-> "undef", wraps |-> <<>>]

defined(tensor) == tensor.base # "undef"

\* TensorWrapper.h (not in this file): nullptr when the tensor is no wrapper
maybeGetTensorWrapper(tensor) ==
    IF tensor.wraps = <<>> THEN None ELSE Some(Head(tensor.wraps))

\* TensorWrapper::value(): the tensor under the outermost wrapper
wrapper_value(tensor) == [tensor EXCEPT !.wraps = Tail(@)]

\* TensorWrapper::level(): the level the wrapper is tagged with
wrapper_level(wrapper) == Some(wrapper.level)

\* TensorWrapper::is_alive(): reads the shared liveness flag
is_alive(wrapper, flagHeap) == flagHeap[wrapper.life]

\* ----------------------------------------------------------------- IValues
IntIValue == [tag |-> "Int", t |-> UndefinedTensor, elems |-> <<>>]
NoneIValue == [tag |-> "None", t |-> UndefinedTensor, elems |-> <<>>]
TensorIValue(tensor) == [tag |-> "Tensor", t |-> tensor, elems |-> <<>>]
ListIValue(elems) == [tag |-> "List", t |-> UndefinedTensor, elems |-> elems]

\* the tensors an IValue carries: itself, or the Tensor elements of a list
TensorsOf(iv) ==
    IF iv.tag = "Tensor" THEN {iv.t}
    ELSE IF iv.tag = "List"
    THEN {iv.elems[k].t : k \in {j \in DOMAIN iv.elems : iv.elems[j].tag = "Tensor"}}
    ELSE {}
\* a std::function<Tensor(const Tensor&)> as the table of what it returns
\* for each tensor found in args
TensorsIn(args) == UNION {TensorsOf(args[i]) : i \in DOMAIN args}

Min(S) == CHOOSE m \in S : \A n \in S : m <= n

\* ------------------------------------------------------------ DynamicLayer
\* a slip: the key set of the thread is not captured
DynamicLayer_keySetNotCaptured(key, layerId, batchSize, randomness, prevGrad, prevFwdGrad, tlsKeys) ==
    [key_ |-> key, layerId_ |-> layerId, batchSize_ |-> batchSize,
     randomness_ |-> randomness, prevGradMode_ |-> prevGrad,
     prevFwdGradMode_ |-> prevFwdGrad,
     prevLocalDispatchKeySet_ |-> [included |-> {}, excluded |-> {}]]

\* the constructor's member initializers; tlsKeys is what
\* c10::impl::tls_local_dispatch_key_set() returns at that moment
DynamicLayer(key, layerId, batchSize, randomness, prevGrad, prevFwdGrad, tlsKeys) ==
    [key_ |-> key, layerId_ |-> layerId, batchSize_ |-> batchSize,
     randomness_ |-> randomness, prevGradMode_ |-> prevGrad,
     prevFwdGradMode_ |-> prevFwdGrad,
     prevLocalDispatchKeySet_ |-> tlsKeys]

\* TORCH_INTERNAL_ASSERT in the constructor body
DynamicLayerCtorOk(key, prev_grad_mode, prev_fwd_grad_mode) ==
    key = Autograd => (has_value(prev_grad_mode) \/ has_value(prev_fwd_grad_mode))

\* a slip: the boundary keys stay on when the last layer goes
popDynamicLayer_keysLeftOn(dls, ks) ==
    IF Len(dls) = 0
    THEN [ok |-> FALSE, result |-> None, dls |-> dls, ks |-> ks]
    ELSE [ok |-> TRUE,
          result |-> Some(dls[Len(dls)]),
          dls |-> SubSeq(dls, 1, Len(dls) - 1),
          ks |-> ks]

\* a slip: the layer at the bottom is removed instead of the one on top
popDynamicLayer_front(dls, ks) ==
    IF Len(dls) = 0
    THEN [ok |-> FALSE, result |-> None, dls |-> dls, ks |-> ks]
    ELSE [ok |-> TRUE,
          result |-> Some(dls[1]),
          dls |-> Tail(dls),
          ks |-> IF Len(dls) = 1
                 THEN setDynamicLayerFrontBackKeysIncluded(ks, FALSE)
                 ELSE ks]

\* a slip: every pop switches the boundary keys off, whatever is left
popDynamicLayer_offAtEveryDepth(dls, ks) ==
    IF Len(dls) = 0
    THEN [ok |-> FALSE, result |-> None, dls |-> dls, ks |-> ks]
    ELSE [ok |-> TRUE,
          result |-> Some(dls[Len(dls)]),
          dls |-> SubSeq(dls, 1, Len(dls) - 1),
          ks |-> setDynamicLayerFrontBackKeysIncluded(ks, FALSE)]

\* popDynamicLayer on (layer stack, key set): the assertion, the popped
\* layer, the shorter stack and the key set after the 1 -> 0 switch-off
popDynamicLayer(dls, ks) ==
    IF Len(dls) = 0
    THEN [ok |-> FALSE, result |-> None, dls |-> dls, ks |-> ks]
    ELSE LET rest == SubSeq(dls, 1, Len(dls) - 1) IN
         [ok |-> TRUE,
          result |-> Some(dls[Len(dls)]),
          dls |-> rest,
          ks |-> IF Len(rest) = 0
                 THEN setDynamicLayerFrontBackKeysIncluded(ks, FALSE)
                 ELSE ks]

\* a slip: the layer is put under the others instead of on top
pushDynamicLayer_front(dls, ks, dynamic_layer) ==
    LET layerId == 1 + Len(dls) IN
    IF layerId # dynamic_layer.layerId_
    THEN [ok |-> FALSE, layerId |-> layerId, dls |-> dls, ks |-> ks]
    ELSE [ok |-> TRUE, layerId |-> layerId,
          dls |-> <<dynamic_layer>> \o dls,
          ks |-> IF layerId = 1
                 THEN setDynamicLayerFrontBackKeysIncluded(ks, TRUE)
                 ELSE ks]

\* pushDynamicLayer on (layer stack, key set): the level assertion, the
\* longer stack and the key set after the 0 -> 1 switch-on
pushDynamicLayer(dls, ks, dynamic_layer) ==
    LET layerId == 1 + Len(dls) IN
    IF layerId # dynamic_layer.layerId_
    THEN [ok |-> FALSE, layerId |-> layerId, dls |-> dls, ks |-> ks]
    ELSE [ok |-> TRUE, layerId |-> layerId,
          dls |-> Append(dls, dynamic_layer),
          ks |-> IF layerId = 1
                 THEN setDynamicLayerFrontBackKeysIncluded(ks, TRUE)
                 ELSE ks]

\* ------------------------------------------------------------------- state
VARIABLES
    dynamicLayerStack,      \* FuncTorchTLS::dynamicLayerStack of the thread
    kDynMetaDataSingleton,  \* level -> life handle (index into flags)
    flags,                  \* every shared_ptr<bool> ever made, by index
    tls,                    \* c10::impl::tls_local_dispatch_key_set()
    gradMode,               \* c10::GradMode::is_enabled()
    fwGradMode,             \* c10::AutoFwGradMode state
    op,                     \* operator of the call in flight, None when idle
    stack,                  \* torch::jit::Stack of the call in flight
    frames,                 \* activations of the two fallbacks, outermost first
    pc,                     \* "idle" | "call" | "ret" | "exc" | "done"
    exc,                    \* error being propagated while pc = "exc"
    held,                   \* a result tensor the caller kept from a call
    savedStack,             \* a copy the driver took with getDynamicLayerStack()
    last,                   \* what the last driver-level operation returned
    tlsBeforeFirstPush,     \* key set seen by the push that left depth 0
    other                   \* a second thread: its own dynamicLayerStack and
                            \* LocalDispatchKeySet, and what its last
                            \* operation returned

layerVars == <<dynamicLayerStack, kDynMetaDataSingleton, flags>>
modeVars == <<gradMode, fwGradMode>>
callVars == <<op, stack, frames, pc, exc>>
vars == <<dynamicLayerStack, kDynMetaDataSingleton, flags, tls, gradMode,
          fwGradMode, op, stack, frames, pc, exc, held, savedStack, last,
          tlsBeforeFirstPush, other>>

\* getLifeHandleForLevel: the assertion and the handle
hasLifeHandleForLevel(level) == level \in DOMAIN kDynMetaDataSingleton
getLifeHandleForLevel(level) == kDynMetaDataSingleton[level]

\* maybeCurrentDynamicLayer / areTransformsActive
maybeCurrentDynamicLayer ==
    IF Len(dynamicLayerStack) = 0 THEN None
    ELSE Some(dynamicLayerStack[Len(dynamicLayerStack)])
areTransformsActive == DOMAIN kDynMetaDataSingleton # {}

\* makeTensorWrapper (TensorWrapper.cpp): a new wrapper around tensor that
\* observes the life handle registered for level
makeTensorWrapper(tensor, level) ==
    [tensor EXCEPT !.wraps =
        <<[level |-> level, life |-> getLifeHandleForLevel(level)]>> \o @]

\* ------------------------------------------------------- operator schemas
\* FunctionSchema: per argument its type and optional alias_info (isWrite),
\* per return its optional alias_info.
Arg(type, alias) == [type |-> type, alias_info |-> alias]
Ret(alias) == [alias_info |-> alias]
WriteAlias == Some([isWrite |-> TRUE])
ReadAlias == Some([isWrite |-> FALSE])

Schemas ==
    [sin      |-> [arguments |-> <<Arg("Tensor", None)>>,
                   returns |-> <<Ret(None)>>],
     add_     |-> [arguments |-> <<Arg("Tensor", WriteAlias), Arg("Int", None)>>,
                   returns |-> <<Ret(WriteAlias)>>],
     add_out  |-> [arguments |-> <<Arg("Tensor", None), Arg("Tensor", WriteAlias)>>,
                   returns |-> <<Ret(WriteAlias)>>],
     set_     |-> [arguments |-> <<Arg("Tensor", WriteAlias), Arg("Tensor", ReadAlias)>>,
                   returns |-> <<Ret(WriteAlias)>>],
     detach_  |-> [arguments |-> <<Arg("Tensor", WriteAlias)>>,
                   returns |-> <<Ret(None)>>],
     cat      |-> [arguments |-> <<Arg("List", None)>>,
                   returns |-> <<Ret(None)>>],
     max      |-> [arguments |-> <<Arg("Tensor", None)>>,
                   returns |-> <<Ret(None), Ret(None)>>]]

OpNames == DOMAIN Schemas

\* FunctionSchema::is_mutable(): some argument is written to
is_mutable(schema) ==
    \E i \in DOMAIN schema.arguments :
        /\ has_value(schema.arguments[i].alias_info)
        /\ value_of(schema.arguments[i].alias_info).isWrite

isInplaceOp(schema) ==
    IF ~is_mutable(schema) \/ Len(schema.returns) # 1 THEN FALSE
    ELSE LET first_arg_alias_info == schema.arguments[1].alias_info IN
         IF ~has_value(first_arg_alias_info)
            \/ ~value_of(first_arg_alias_info).isWrite
         THEN FALSE
         ELSE IF \E i \in 2..Len(schema.arguments) :
                     has_value(schema.arguments[i].alias_info)
         THEN FALSE
         ELSE LET return_alias_info == schema.returns[1].alias_info IN
              has_value(return_alias_info) /\ value_of(return_alias_info).isWrite

\* ------------------------------------------------ wrapping and unwrapping
\* Every per-tensor function returns [ok, t]: ok is FALSE when an assertion
\* inside it fails (the call then throws an internal-consistency error).
Ok(tensor) == [ok |-> TRUE, t |-> tensor]
Fail(tensor) == [ok |-> FALSE, t |-> tensor]

unwrapIfDead(tensor) ==
    LET wrapped == maybeGetTensorWrapper(tensor) IN
    IF ~has_value(wrapped) THEN tensor
    ELSE IF is_alive(value_of(wrapped), flags) THEN tensor
    ELSE wrapper_value(tensor)

\* makeTensorWrapper with the assertion of getLifeHandleForLevel
makeTensorWrapperChecked(tensor, level) ==
    IF hasLifeHandleForLevel(level)
    THEN Ok(makeTensorWrapper(tensor, level))
    ELSE Fail(tensor)

\* a slip: a wrapper of the current level is wrapped once more
materializeGradWrappers_rewrap(tensor, dynlayerStack) ==
    LET back == dynlayerStack[Len(dynlayerStack)]
        cur_level == back.layerId_
        wrapper == maybeGetTensorWrapper(tensor)
    IN
    IF ~defined(tensor) THEN Ok(tensor)
    ELSE IF back.key_ # Autograd THEN Ok(tensor)
    ELSE IF ~has_value(wrapper) THEN makeTensorWrapperChecked(tensor, cur_level)
    ELSE IF ~(value_of(wrapper_level(value_of(wrapper))) <= cur_level)
    THEN Fail(tensor)
    ELSE makeTensorWrapperChecked(tensor, cur_level)

\* a slip: a wrapper of a level above the current one is wrapped like any
\* other
materializeGradWrappers_noEscapeCheck(tensor, dynlayerStack) ==
    LET back == dynlayerStack[Len(dynlayerStack)]
        cur_level == back.layerId_
        wrapper == maybeGetTensorWrapper(tensor)
    IN
    IF ~defined(tensor) THEN Ok(tensor)
    ELSE IF back.key_ # Autograd THEN Ok(tensor)
    ELSE IF ~has_value(wrapper) THEN makeTensorWrapperChecked(tensor, cur_level)
    ELSE IF value_of(wrapper_level(value_of(wrapper))) = cur_level THEN Ok(tensor)
    ELSE makeTensorWrapperChecked(tensor, cur_level)

materializeGradWrappers(tensor, dynlayerStack) ==
    LET back == dynlayerStack[Len(dynlayerStack)]
        cur_level == back.layerId_
        wrapper == maybeGetTensorWrapper(tensor)
    IN
    IF ~defined(tensor) THEN Ok(tensor)
    ELSE IF back.key_ # Autograd THEN Ok(tensor)
    ELSE IF ~has_value(wrapper) THEN makeTensorWrapperChecked(tensor, cur_level)
    ELSE IF ~(value_of(wrapper_level(value_of(wrapper))) <= cur_level)
    THEN Fail(tensor)
    ELSE IF value_of(wrapper_level(value_of(wrapper))) = cur_level THEN Ok(tensor)
    ELSE makeTensorWrapperChecked(tensor, cur_level)

\* a slip: dead wrappers are unwrapped but nothing is materialized
maybeTransformGradWrappers_unwrapOnly(tensor) == Ok(unwrapIfDead(tensor))

\* the lambda maybeTransformGradWrappers of dynamicLayerFrontFallback
maybeTransformGradWrappers(tensor) ==
    materializeGradWrappers(unwrapIfDead(tensor), dynamicLayerStack)

\* a slip: a wrapper of the current level is handed on as it is
unwrap_keepsWrapper(tensor, cur_level) ==
    LET maybe_tensor_wrapper == maybeGetTensorWrapper(tensor) IN
    IF ~defined(tensor) THEN Ok(tensor)
    ELSE IF ~has_value(maybe_tensor_wrapper) THEN Ok(tensor)
    ELSE LET tensor_wrapper_level ==
                 value_of(wrapper_level(value_of(maybe_tensor_wrapper))) IN
         IF ~(tensor_wrapper_level <= cur_level) THEN Fail(tensor)
         ELSE Ok(tensor)

\* the lambda unwrap of dynamicLayerBackFallback
unwrap(tensor, cur_level) ==
    LET maybe_tensor_wrapper == maybeGetTensorWrapper(tensor) IN
    IF ~defined(tensor) THEN Ok(tensor)
    ELSE IF ~has_value(maybe_tensor_wrapper) THEN Ok(tensor)
    ELSE LET tensor_wrapper_level ==
                 value_of(wrapper_level(value_of(maybe_tensor_wrapper))) IN
         IF ~(tensor_wrapper_level <= cur_level) THEN Fail(tensor)
         ELSE IF tensor_wrapper_level = cur_level THEN Ok(wrapper_value(tensor))
         ELSE Ok(tensor)

\* a slip: the result is handed back without a wrapper
wrap_notWrapped(tensor, cur_level) == Ok(tensor)

\* the lambda wrap of dynamicLayerBackFallback
wrap(tensor, cur_level) ==
    IF ~defined(tensor) THEN Ok(tensor)
    ELSE makeTensorWrapperChecked(tensor, cur_level)

\* foreachTensorInplace(args, begin, end, func) with 0-based begin/end as in
\* the source.  func is applied to Tensor elements and to the Tensor
\* elements of a copy of each list; a list is stored back only when the whole
\* copy was processed.  The loop stops at the first element whose func
\* throws; the elements before it stay replaced.
foreachTensorInplace(args, begin, end, func) ==
    LET OfList(iv) ==
            LET r == [k \in DOMAIN iv.elems |->
                         IF iv.elems[k].tag = "Tensor"
                         THEN func[iv.elems[k].t]
                         ELSE Ok(iv.elems[k].t)]
            IN [ok |-> \A k \in DOMAIN r : r[k].ok,
                v |-> [iv EXCEPT !.elems =
                          [k \in DOMAIN iv.elems |->
                              IF iv.elems[k].tag = "Tensor"
                              THEN TensorIValue(r[k].t)
                              ELSE iv.elems[k]]]]
        OfTensor(iv) ==
            LET r == func[iv.t] IN [ok |-> r.ok, v |-> TensorIValue(r.t)]
        Of(iv) ==
            IF iv.tag = "List" THEN OfList(iv)
            ELSE IF iv.tag = "GenericDict" THEN [ok |-> FALSE, v |-> iv]
            ELSE IF iv.tag = "Tensor" THEN OfTensor(iv)
            ELSE [ok |-> TRUE, v |-> iv]
        range == (begin + 1)..end
        bad == {i \in range : ~Of(args[i]).ok}
        stop == IF bad = {} THEN end + 1 ELSE Min(bad)
    IN
    IF ~(begin >= 0 /\ end >= 0 /\ begin <= end)
    THEN [ok |-> FALSE, args |-> args]
    ELSE [ok |-> bad = {},
          args |-> [i \in DOMAIN args |->
                       IF i \in range /\ i < stop THEN Of(args[i]).v
                       ELSE args[i]]]

\* a slip: any wrapper passes, whatever its level
checkForInvalidMutationOnCaptures_anyLevel(schema, callStack, dynlayerStack) ==
    LET back == dynlayerStack[Len(dynlayerStack)]
        nargs == Len(schema.arguments)
        args == SubSeq(callStack, Len(callStack) - nargs + 1, Len(callStack))
        mutated_arg == unwrapIfDead(args[1].t)
        wrapper == maybeGetTensorWrapper(mutated_arg)
    IN
    IF back.key_ # Autograd THEN TRUE
    ELSE IF ~isInplaceOp(schema) THEN TRUE
    ELSE has_value(wrapper)

\* checkForInvalidMutationOnCaptures: TRUE when it returns, FALSE when the
\* TORCH_CHECK throws the captured-mutation error
checkForInvalidMutationOnCaptures(schema, callStack, dynlayerStack) ==
    LET back == dynlayerStack[Len(dynlayerStack)]
        nargs == Len(schema.arguments)
        args == SubSeq(callStack, Len(callStack) - nargs + 1, Len(callStack))
        mutated_arg == unwrapIfDead(args[1].t)
        cur_level == back.layerId_
        wrapper == maybeGetTensorWrapper(mutated_arg)
    IN
    IF back.key_ # Autograd THEN TRUE
    ELSE IF ~isInplaceOp(schema) THEN TRUE
    ELSE /\ has_value(wrapper)
         /\ has_value(wrapper_level(value_of(wrapper)))
         /\ value_of(wrapper_level(value_of(wrapper))) = cur_level

\* ------------------------------------------------------- key set selection
keysForEnteringDynamicLayer(key) ==
    IF key = kBatchedKey THEN {kBatchedKey}
    ELSE autograd_dispatch_keyset \cup {ADInplaceOrView}

zeroedOutDynamicLayerKeyset(ks) ==
    [included |-> ks.included \ all_dynlayer_keyset,
     excluded |-> ks.excluded \cup all_dynlayer_keyset]

\* a slip: the functorch keys are not zeroed out first
keysetToTurnOnSubsystem_notZeroed(ks, key) ==
    [included |-> ks.included \cup {kDynamicLayerBackModeKey},
     excluded |-> (ks.excluded \ keysForEnteringDynamicLayer(key))
                      \ {kDynamicLayerBackModeKey}]

keysetToTurnOnSubsystem(ks, key) ==
    LET zeroed == zeroedOutDynamicLayerKeyset(ks) IN
    [included |-> zeroed.included \cup {kDynamicLayerBackModeKey},
     excluded |-> (zeroed.excluded \ keysForEnteringDynamicLayer(key))
                      \ {kDynamicLayerBackModeKey}]

\* a slip: the key set is handed back as it was found
keysetToReturnToDynamicLayerFront_unchanged(ks) == ks

keysetToReturnToDynamicLayerFront(ks) ==
    [included |-> ks.included \cup {kDynamicLayerFrontModeKey},
     excluded |-> ks.excluded \ {kDynamicLayerFrontModeKey}]

\* c10 Dispatcher: the boxed fallback or kernel that a callBoxed reaches under
\* key set ks.  The front key outranks every other functorch key; the back
\* key is reached after the kernels of the transform's own keys.
DispatchTarget(ks) ==
    IF kDynamicLayerFrontModeKey \in ks.included \ ks.excluded THEN "front"
    ELSE IF kDynamicLayerBackModeKey \in ks.included \ ks.excluded THEN "back"
    ELSE "kernel"

\* The three writes to kDynMetaDataSingleton and its handles:
\* data[layerId] = handle, *(it->second) = false, data.erase(level)
DynmetaInsert(data, layerId, handle) ==
    [l \in DOMAIN data \cup {layerId} |-> IF l = layerId THEN handle ELSE data[l]]
\* a slip: the flag is left as it is
InvalidateHandle_noop(flagHeap, handle) == flagHeap
InvalidateHandle(flagHeap, handle) == [flagHeap EXCEPT ![handle] = FALSE]
\* a slip: the entry is not erased
DynmetaErase_keep(data, level) == data
DynmetaErase(data, level) == [l \in DOMAIN data \ {level} |-> data[l]]

\* ------------------------------------------------------ driver-level result
\* act: the operation; ok/err: whether it returned or threw; level: the
\* int64_t a push returned (and the level a pop removed); layer: the
\* DynamicLayer a pop returned; arg: the arguments a push was called with;
\* found: whether the pop found metadata for the level.
NoLayer == None
Result(act, ok, err, level, layer, arg, found) ==
    [act |-> act, ok |-> ok, err |-> err, level |-> level, layer |-> layer,
     arg |-> arg, found |-> found]

\* ------------------------------------------------------------------ inputs
\* Key sets a thread can have before any transform is entered: the two
\* boundary keys are only ever switched on by pushDynamicLayer.
\* Thread states from which a transform is entered: the default one, and
\* one under no-grad with some keys already included and excluded.
InitThreadStates ==
    {[included |-> {}, excluded |-> {}, gradMode |-> TRUE],
     [included |-> {ADInplaceOrView, BackendSelect},
      excluded |-> {"AutogradOther"}, gradMode |-> FALSE]}

\* Arguments transform entry points pass to initAndPushDynamicLayer
\* (vmap: batch size and randomness; grad/vjp/jvp: the previous modes),
\* plus two calls that break its assertions.
PushArgs ==
    {[key |-> kBatchedKey, batch_size |-> Some(2), randomness |-> Some("error"),
      prev_grad_mode |-> None, prev_fwd_grad_mode |-> None],
     [key |-> Autograd, batch_size |-> None, randomness |-> None,
      prev_grad_mode |-> Some(TRUE), prev_fwd_grad_mode |-> None],
     [key |-> Autograd, batch_size |-> None, randomness |-> None,
      prev_grad_mode |-> Some(FALSE), prev_fwd_grad_mode |-> Some(FALSE)],
     [key |-> Autograd, batch_size |-> None, randomness |-> None,
      prev_grad_mode |-> None, prev_fwd_grad_mode |-> None],
     [key |-> BackendSelect, batch_size |-> None, randomness |-> None,
      prev_grad_mode |-> None, prev_fwd_grad_mode |-> None]}

\* -------------------------------------------------------------------- Init
Init ==
    /\ dynamicLayerStack = <<>>
    /\ kDynMetaDataSingleton = <<>>
    /\ flags = <<>>
    /\ \E th \in InitThreadStates :
          /\ tls = [included |-> th.included, excluded |-> th.excluded]
          /\ gradMode = th.gradMode
    /\ fwGradMode = TRUE
    /\ op = None
    /\ stack = <<>>
    /\ frames = <<>>
    /\ pc = "idle"
    /\ exc = "none"
    /\ held = RawX
    /\ savedStack = <<>>
    /\ last = Result("init", TRUE, "none", 0, NoLayer, None, FALSE)
    /\ tlsBeforeFirstPush = tls
    /\ other = [dynamicLayerStack |-> <<>>,
                tls |-> [included |-> {}, excluded |-> {}],
                last |-> Result("init", TRUE, "none", 0, NoLayer, None, FALSE)]

\* ----------------------------------------------------------- push and pop
\* initAndPushDynamicLayer(key, batch_size, randomness, prev_grad_mode,
\*                         prev_fwd_grad_mode)
initAndPushDynamicLayer(a) ==
    /\ pc = "idle"
    /\ Len(dynamicLayerStack) < MaxDepth
    /\ Len(flags) < MaxFlags
    /\ LET layerId == 1 + Len(dynamicLayerStack)
           new_layer == DynamicLayer(a.key, layerId, a.batch_size, a.randomness,
                                     a.prev_grad_mode, a.prev_fwd_grad_mode, tls)
           pushed == pushDynamicLayer(dynamicLayerStack, tls, new_layer)
       IN
       IF \/ a.key \notin {Autograd, kBatchedKey}
          \/ ~DynamicLayerCtorOk(a.key, a.prev_grad_mode, a.prev_fwd_grad_mode)
          \/ ~pushed.ok
       THEN \* an assertion before the stack is touched
            /\ last' = Result("push", FALSE, "internal", 0, NoLayer, Some(a), FALSE)
            /\ UNCHANGED <<layerVars, tls, tlsBeforeFirstPush>>
       ELSE /\ dynamicLayerStack' = pushed.dls
            /\ tls' = pushed.ks
            /\ tlsBeforeFirstPush' =
                   IF layerId = 1 THEN tls ELSE tlsBeforeFirstPush
            /\ IF layerId \in DOMAIN kDynMetaDataSingleton
               THEN \* data.find(layerId) == data.end() fails after the push
                    /\ last' = Result("push", FALSE, "internal", 0, NoLayer, Some(a), FALSE)
                    /\ UNCHANGED <<kDynMetaDataSingleton, flags>>
               ELSE /\ flags' = Append(flags, TRUE)
                    /\ kDynMetaDataSingleton' =
                           DynmetaInsert(kDynMetaDataSingleton, layerId, Len(flags) + 1)
                    /\ last' = Result("push", TRUE, "none", layerId, NoLayer, Some(a), FALSE)
    /\ UNCHANGED <<modeVars, callVars, held, savedStack, other>>

\* popDynamicLayerAndDeleteMetadata()
popDynamicLayerAndDeleteMetadata ==
    /\ pc = "idle"
    /\ LET popped == popDynamicLayer(dynamicLayerStack, tls) IN
       IF ~popped.ok
       THEN /\ last' = Result("pop", FALSE, "internal", 0, NoLayer, None, FALSE)
            /\ UNCHANGED <<layerVars, tls>>
       ELSE LET level == value_of(popped.result).layerId_ IN
            /\ dynamicLayerStack' = popped.dls
            /\ tls' = popped.ks
            /\ last' = Result("pop", TRUE, "none", level, popped.result, None,
                              level \in DOMAIN kDynMetaDataSingleton)
            /\ IF level \notin DOMAIN kDynMetaDataSingleton
               THEN UNCHANGED <<kDynMetaDataSingleton, flags>>
               ELSE /\ flags' = InvalidateHandle(flags, kDynMetaDataSingleton[level])
                    /\ kDynMetaDataSingleton' = DynmetaErase(kDynMetaDataSingleton, level)
    /\ UNCHANGED <<modeVars, callVars, held, savedStack, other, tlsBeforeFirstPush>>

\* ------------------------------------------------------- operator calls
\* One activation of a fallback.  A front activation holds the
\* ForceDispatchKeyGuard; a back activation holds the WithoutTop guard
\* (layer_), the two optional grad-mode guards and the optional
\* ForceDispatchKeyGuard.  entry records what the activation found on entry.
Entry == [dls |-> dynamicLayerStack, tls |-> tls, stack |-> stack,
          gradMode |-> gradMode, fwGradMode |-> fwGradMode]

FrontFrame(saved) ==
    [kind |-> "front", tls_guard |-> Some(saved), layer_ |-> None,
     cur_level |-> 0, cur_key |-> "none",
     grad_guard |-> None, fw_grad_guard |-> None, entry |-> Entry]

BackFrame(layer, tls_guard, grad_guard, fw_grad_guard) ==
    [kind |-> "back", tls_guard |-> tls_guard, layer_ |-> Some(layer),
     cur_level |-> layer.layerId_, cur_key |-> layer.key_,
     grad_guard |-> grad_guard, fw_grad_guard |-> fw_grad_guard,
     entry |-> Entry]

TopFrame == frames[Len(frames)]
PopFrame == SubSeq(frames, 1, Len(frames) - 1)
schema == Schemas[value_of(op)]

\* What the caller passes for the arguments of an operator: first is the
\* first Tensor (or the Tensor in the list), every further Tensor is the
\* tensor the caller kept.
CallArgs(name, first) ==
    [i \in DOMAIN Schemas[name].arguments |->
        LET type == Schemas[name].arguments[i].type IN
        IF type = "Tensor" THEN TensorIValue(IF i = 1 THEN first ELSE held)
        ELSE IF type = "List" THEN ListIValue(<<TensorIValue(first), NoneIValue>>)
        ELSE IntIValue]

\* The caller runs op.callBoxed(stack): the arguments go on top of whatever
\* the interpreter stack already holds.  From here on the last driver-level
\* operation is this call.
callBoxed(name, first) ==
    /\ pc = "idle"
    /\ op' = Some(name)
    /\ stack' = <<IntIValue>> \o CallArgs(name, first)
    /\ frames' = <<>>
    /\ pc' = "call"
    /\ exc' = "none"
    /\ last' = Result("call", TRUE, "none", 0, NoLayer, None, FALSE)
    /\ UNCHANGED <<layerVars, tls, modeVars, held, savedStack, other,
                   tlsBeforeFirstPush>>

\* a slip: the arguments are processed before the captured-mutation error
\* is raised
dynamicLayerFrontFallback_rejectsAfterWrapping ==
    /\ pc = "call"
    /\ DispatchTarget(tls) = "front"
    /\ UNCHANGED <<layerVars, modeVars, op, held, savedStack, other, last,
                   tlsBeforeFirstPush>>
    /\ IF Len(dynamicLayerStack) = 0
       THEN /\ pc' = "exc" /\ exc' = "internal"
            /\ UNCHANGED <<stack, frames, tls>>
       ELSE LET num_args == Len(schema.arguments)
                func == [tensor \in TensorsIn(stack) |->
                            maybeTransformGradWrappers(tensor)]
                done == foreachTensorInplace(stack, Len(stack) - num_args,
                                             Len(stack), func)
                layer == dynamicLayerStack[Len(dynamicLayerStack)]
                turned_on == keysetToTurnOnSubsystem(tls, layer.key_)
                selected_keyset ==
                    IF layer.key_ = kBatchedKey
                    THEN [turned_on EXCEPT !.included = @ \cup {kVmapModeKey}]
                    ELSE turned_on
            IN
            /\ stack' = done.args
            /\ IF ~done.ok
               THEN /\ pc' = "exc" /\ exc' = "internal"
                    /\ UNCHANGED <<frames, tls>>
               ELSE IF ~checkForInvalidMutationOnCaptures(schema, stack,
                                                          dynamicLayerStack)
               THEN /\ pc' = "exc" /\ exc' = "mutation"
                    /\ UNCHANGED <<frames, tls>>
               ELSE /\ frames' = Append(frames, FrontFrame(tls))
                    /\ tls' = selected_keyset
                    /\ pc' = "call"
                    /\ UNCHANGED exc

\* dynamicLayerFrontFallback up to and including its op.callBoxed(stack)
dynamicLayerFrontFallback ==
    /\ pc = "call"
    /\ DispatchTarget(tls) = "front"
    /\ UNCHANGED <<layerVars, modeVars, op, held, savedStack, other, last,
                   tlsBeforeFirstPush>>
    /\ IF Len(dynamicLayerStack) = 0
       THEN /\ pc' = "exc" /\ exc' = "internal"
            /\ UNCHANGED <<stack, frames, tls>>
       ELSE IF ~checkForInvalidMutationOnCaptures(schema, stack, dynamicLayerStack)
       THEN /\ pc' = "exc" /\ exc' = "mutation"
            /\ UNCHANGED <<stack, frames, tls>>
       ELSE LET num_args == Len(schema.arguments)
                func == [tensor \in TensorsIn(stack) |->
                            maybeTransformGradWrappers(tensor)]
                done == foreachTensorInplace(stack, Len(stack) - num_args,
                                             Len(stack), func)
                layer == dynamicLayerStack[Len(dynamicLayerStack)]
                turned_on == keysetToTurnOnSubsystem(tls, layer.key_)
                selected_keyset ==
                    IF layer.key_ = kBatchedKey
                    THEN [turned_on EXCEPT !.included = @ \cup {kVmapModeKey}]
                    ELSE turned_on
            IN
            /\ stack' = done.args
            /\ IF ~done.ok
               THEN /\ pc' = "exc" /\ exc' = "internal"
                    /\ UNCHANGED <<frames, tls>>
               ELSE /\ frames' = Append(frames, FrontFrame(tls))
                    /\ tls' = selected_keyset
                    /\ pc' = "call"
                    /\ UNCHANGED exc

\* a slip: the key set is forced without a guard, so nothing puts it back
dynamicLayerFrontFallbackExit_noRestore ==
    /\ pc \in {"ret", "exc"}
    /\ frames # <<>>
    /\ TopFrame.kind = "front"
    /\ frames' = PopFrame
    /\ UNCHANGED <<layerVars, tls, modeVars, op, stack, pc, exc, held, savedStack,
                   other, last, tlsBeforeFirstPush>>

\* dynamicLayerFrontFallback after its op.callBoxed(stack) returned or threw:
\* ~ForceDispatchKeyGuard
dynamicLayerFrontFallbackExit ==
    /\ pc \in {"ret", "exc"}
    /\ frames # <<>>
    /\ TopFrame.kind = "front"
    /\ tls' = value_of(TopFrame.tls_guard)
    /\ frames' = PopFrame
    /\ UNCHANGED <<layerVars, modeVars, op, stack, pc, exc, held, savedStack, other, last,
                   tlsBeforeFirstPush>>

\* a slip: the grad modes are set without guards, so nothing puts them back
BackGuardsRelease_gradModesLeft(frame) ==
    LET ks == IF has_value(frame.tls_guard) THEN value_of(frame.tls_guard) ELSE tls
        repushed == pushDynamicLayer(dynamicLayerStack, ks, value_of(frame.layer_))
    IN
    /\ UNCHANGED <<gradMode, fwGradMode>>
    /\ dynamicLayerStack' = repushed.dls
    /\ tls' = repushed.ks
    /\ frames' = PopFrame

\* The destructors at the end of dynamicLayerBackFallback, in reverse order
\* of construction: tls_guard, fw_grad_guard, grad_guard, WithoutTop.
BackGuardsRelease(frame) ==
    LET ks == IF has_value(frame.tls_guard) THEN value_of(frame.tls_guard) ELSE tls
        repushed == pushDynamicLayer(dynamicLayerStack, ks, value_of(frame.layer_))
    IN
    /\ fwGradMode' = IF has_value(frame.fw_grad_guard)
                     THEN value_of(frame.fw_grad_guard) ELSE fwGradMode
    /\ gradMode' = IF has_value(frame.grad_guard)
                   THEN value_of(frame.grad_guard) ELSE gradMode
    /\ dynamicLayerStack' = repushed.dls
    /\ tls' = repushed.ks
    /\ frames' = PopFrame

\* a slip: WithoutTop removes the layer with popDynamicLayerAndDeleteMetadata
dynamicLayerBackFallback_deletesMetadata ==
    /\ pc = "call"
    /\ DispatchTarget(tls) = "back"
    /\ Len(dynamicLayerStack) > 0
    /\ UNCHANGED <<op, held, savedStack, other, last, tlsBeforeFirstPush>>
    /\ LET back == dynamicLayerStack[Len(dynamicLayerStack)]
           cur_level == back.layerId_
           cur_key == back.key_
           tls_before_entering_functorch == back.prevLocalDispatchKeySet_
           prev_grad_mode == back.prevGradMode_
           prev_fwd_grad_mode == back.prevFwdGradMode_
           args_size == Len(schema.arguments)
           front == Len(stack) - args_size
           copied == stack \o SubSeq(stack, front + 1, Len(stack))
           unwrapFn == [tensor \in TensorsIn(copied) |-> unwrap(tensor, cur_level)]
           unwrapped == foreachTensorInplace(copied, Len(copied) - args_size,
                                             Len(copied), unwrapFn)
           popped == popDynamicLayer(dynamicLayerStack, tls)
           grad_guard == IF cur_key = Autograd /\ has_value(prev_grad_mode)
                            /\ value_of(prev_grad_mode) = FALSE
                         THEN Some(gradMode) ELSE None
           fw_grad_guard == IF cur_key = Autograd /\ has_value(prev_fwd_grad_mode)
                               /\ value_of(prev_fwd_grad_mode) = FALSE
                            THEN Some(fwGradMode) ELSE None
       IN
       IF cur_key = Autograd
          /\ ~(has_value(prev_grad_mode) \/ has_value(prev_fwd_grad_mode))
       THEN /\ pc' = "exc" /\ exc' = "internal"
            /\ UNCHANGED <<dynamicLayerStack, tls, modeVars, stack, frames>>
       ELSE IF cur_key = Autograd /\ ~unwrapped.ok
       THEN /\ pc' = "exc" /\ exc' = "internal"
            /\ stack' = unwrapped.args
            /\ UNCHANGED <<dynamicLayerStack, tls, modeVars, frames>>
       ELSE /\ stack' = IF cur_key = Autograd THEN unwrapped.args ELSE stack
            /\ dynamicLayerStack' = popped.dls
            /\ gradMode' = IF has_value(grad_guard) THEN FALSE ELSE gradMode
            /\ fwGradMode' = IF has_value(fw_grad_guard) THEN FALSE ELSE fwGradMode
            /\ IF Len(popped.dls) = 0
               THEN /\ tls' = tls_before_entering_functorch
                    /\ frames' = Append(frames,
                          BackFrame(back, Some(popped.ks), grad_guard, fw_grad_guard))
               ELSE /\ tls' = keysetToReturnToDynamicLayerFront(popped.ks)
                    /\ frames' = Append(frames,
                          BackFrame(back, None, grad_guard, fw_grad_guard))
            /\ pc' = "call"
            /\ UNCHANGED exc
    /\ LET level == dynamicLayerStack[Len(dynamicLayerStack)].layerId_ IN
       IF pc' = "call" /\ level \in DOMAIN kDynMetaDataSingleton
       THEN /\ flags' = InvalidateHandle(flags, kDynMetaDataSingleton[level])
            /\ kDynMetaDataSingleton' = DynmetaErase(kDynMetaDataSingleton, level)
       ELSE UNCHANGED <<kDynMetaDataSingleton, flags>>

\* dynamicLayerBackFallback up to and including its op.callBoxed(stack)
dynamicLayerBackFallback ==
    /\ pc = "call"
    /\ DispatchTarget(tls) = "back"
    /\ Len(dynamicLayerStack) > 0
    /\ UNCHANGED <<kDynMetaDataSingleton, flags, op, held, savedStack, other, last,
                   tlsBeforeFirstPush>>
    /\ LET back == dynamicLayerStack[Len(dynamicLayerStack)]
           cur_level == back.layerId_
           cur_key == back.key_
           tls_before_entering_functorch == back.prevLocalDispatchKeySet_
           prev_grad_mode == back.prevGradMode_
           prev_fwd_grad_mode == back.prevFwdGradMode_
           args_size == Len(schema.arguments)
           front == Len(stack) - args_size
           copied == stack \o SubSeq(stack, front + 1, Len(stack))
           unwrapFn == [tensor \in TensorsIn(copied) |-> unwrap(tensor, cur_level)]
           unwrapped == foreachTensorInplace(copied, Len(copied) - args_size,
                                             Len(copied), unwrapFn)
           popped == popDynamicLayer(dynamicLayerStack, tls)
           grad_guard == IF cur_key = Autograd /\ has_value(prev_grad_mode)
                            /\ value_of(prev_grad_mode) = FALSE
                         THEN Some(gradMode) ELSE None
           fw_grad_guard == IF cur_key = Autograd /\ has_value(prev_fwd_grad_mode)
                               /\ value_of(prev_fwd_grad_mode) = FALSE
                            THEN Some(fwGradMode) ELSE None
       IN
       IF cur_key = Autograd
          /\ ~(has_value(prev_grad_mode) \/ has_value(prev_fwd_grad_mode))
       THEN /\ pc' = "exc" /\ exc' = "internal"
            /\ UNCHANGED <<dynamicLayerStack, tls, modeVars, stack, frames>>
       ELSE IF cur_key = Autograd /\ ~unwrapped.ok
       THEN /\ pc' = "exc" /\ exc' = "internal"
            /\ stack' = unwrapped.args
            /\ UNCHANGED <<dynamicLayerStack, tls, modeVars, frames>>
       ELSE /\ stack' = IF cur_key = Autograd THEN unwrapped.args ELSE stack
            /\ dynamicLayerStack' = popped.dls
            /\ gradMode' = IF has_value(grad_guard) THEN FALSE ELSE gradMode
            /\ fwGradMode' = IF has_value(fw_grad_guard) THEN FALSE ELSE fwGradMode
            /\ IF Len(popped.dls) = 0
               THEN /\ tls' = tls_before_entering_functorch
                    /\ frames' = Append(frames,
                          BackFrame(back, Some(popped.ks), grad_guard, fw_grad_guard))
               ELSE /\ tls' = keysetToReturnToDynamicLayerFront(popped.ks)
                    /\ frames' = Append(frames,
                          BackFrame(back, None, grad_guard, fw_grad_guard))
            /\ pc' = "call"
            /\ UNCHANGED exc

\* dynamicLayerBackFallback after its op.callBoxed(stack) returned: steps 4
\* to 6 for a Differentiation layer, then the guards are released.
\* (Step 5, refreshMetadata, recomputes cached sizes and strides of the
\* wrappers, which tensors here do not carry.)
dynamicLayerBackFallbackReturn ==
    /\ pc = "ret"
    /\ frames # <<>>
    /\ TopFrame.kind = "back"
    /\ UNCHANGED <<kDynMetaDataSingleton, flags, op, held, savedStack, other, last,
                   tlsBeforeFirstPush>>
    /\ LET cur_level == TopFrame.cur_level
           ret_size == Len(schema.returns)
           args_size == Len(schema.arguments)
           wrapFn == [tensor \in TensorsIn(stack) |-> wrap(tensor, cur_level)]
           wrapped == foreachTensorInplace(stack, Len(stack) - ret_size,
                                           Len(stack), wrapFn)
           n == Len(wrapped.args)
           erased == SubSeq(wrapped.args, 1, n - (args_size + ret_size))
                         \o SubSeq(wrapped.args, n - ret_size + 1, n)
       IN
       IF TopFrame.cur_key # Autograd
       THEN /\ UNCHANGED <<stack, pc, exc>>
       ELSE IF ~wrapped.ok
       THEN /\ stack' = wrapped.args
            /\ pc' = "exc" /\ exc' = "internal"
       ELSE /\ stack' = erased
            /\ UNCHANGED <<pc, exc>>
    /\ BackGuardsRelease(TopFrame)

\* a slip: the layer is put back by code after the call instead of by a
\* guard, so a throwing call skips it
dynamicLayerBackFallbackUnwind_noRepush ==
    /\ pc = "exc"
    /\ frames # <<>>
    /\ TopFrame.kind = "back"
    /\ frames' = PopFrame
    /\ UNCHANGED <<layerVars, tls, modeVars, op, stack, pc, exc, held, savedStack, other,
                   last, tlsBeforeFirstPush>>

\* dynamicLayerBackFallback when its op.callBoxed(stack) threw: only the
\* guards run.
dynamicLayerBackFallbackUnwind ==
    /\ pc = "exc"
    /\ frames # <<>>
    /\ TopFrame.kind = "back"
    /\ BackGuardsRelease(TopFrame)
    /\ UNCHANGED <<kDynMetaDataSingleton, flags, op, stack, pc, exc, held, savedStack, other, last,
                   tlsBeforeFirstPush>>

\* The backend kernel the dispatcher reaches once neither boundary key is
\* active: it consumes the arguments and leaves the returns, or throws.
\* A return whose schema aliases a written argument is that argument; the
\* other returns are a new tensor or, with outcome "undef", undefined.
KernelOutcomes == {"fresh", "undef", "throw"}
kernel(outcome) ==
    /\ pc = "call"
    /\ DispatchTarget(tls) = "kernel"
    /\ UNCHANGED <<layerVars, tls, modeVars, op, frames, held, savedStack, other, last,
                   tlsBeforeFirstPush>>
    /\ IF outcome = "throw"
       THEN /\ pc' = "exc" /\ exc' = "kernel"
            /\ UNCHANGED stack
       ELSE LET nargs == Len(schema.arguments)
                args == SubSeq(stack, Len(stack) - nargs + 1, Len(stack))
                written == {i \in DOMAIN schema.arguments :
                               /\ has_value(schema.arguments[i].alias_info)
                               /\ value_of(schema.arguments[i].alias_info).isWrite}
                result(r) ==
                    IF has_value(schema.returns[r].alias_info) /\ written # {}
                    THEN args[Min(written)]
                    ELSE IF outcome = "fresh" THEN TensorIValue(RawY)
                    ELSE TensorIValue(UndefinedTensor)
            IN
            /\ stack' = SubSeq(stack, 1, Len(stack) - nargs)
                            \o [r \in DOMAIN schema.returns |-> result(r)]
            /\ pc' = "ret"
            /\ UNCHANGED exc

\* The caller's op.callBoxed(stack) is over: it may keep the first result.
callBoxedDone(keep) ==
    /\ pc \in {"ret", "exc"}
    /\ frames = <<>>
    /\ LET ret_size == Len(schema.returns) IN
       held' = IF keep /\ pc = "ret" /\ ret_size > 0
               THEN stack[Len(stack) - ret_size + 1].t
               ELSE held
    /\ last' = Result("call", TRUE, "none", 0, NoLayer, None, FALSE)
    /\ op' = None
    /\ stack' = <<>>
    /\ pc' = "idle"
    /\ exc' = "none"
    /\ UNCHANGED <<layerVars, tls, modeVars, frames, savedStack, other,
                   tlsBeforeFirstPush>>

Next ==
    \/ \E a \in PushArgs : initAndPushDynamicLayer(a)
    \/ popDynamicLayerAndDeleteMetadata
    \/ \E name \in OpNames, first \in {RawX, held} : callBoxed(name, first)
    \/ dynamicLayerFrontFallback
    \/ dynamicLayerFrontFallbackExit
    \/ dynamicLayerBackFallback
    \/ dynamicLayerBackFallbackReturn
    \/ dynamicLayerBackFallbackUnwind
    \/ \E outcome \in KernelOutcomes : kernel(outcome)
    \/ \E keep \in BOOLEAN : callBoxedDone(keep)

Spec == Init /\ [][Next]_vars

\* ------------------------------------------- saving and replacing the stack
\* getDynamicLayerStack(): the driver copies the current stack
getDynamicLayerStack ==
    /\ pc = "idle"
    /\ savedStack' = dynamicLayerStack
    /\ last' = Result("get", TRUE, "none", 0, NoLayer, None, FALSE)
    /\ UNCHANGED <<layerVars, tls, modeVars, callVars, held, tlsBeforeFirstPush,
                   other>>

\* setDynamicLayerStack(stack): the driver puts a copy back
setDynamicLayerStack ==
    /\ pc = "idle"
    /\ dynamicLayerStack' = savedStack
    /\ last' = Result("set", TRUE, "none", 0, NoLayer, None, FALSE)
    /\ UNCHANGED <<kDynMetaDataSingleton, flags, tls, modeVars, callVars, held,
                   savedStack, other, tlsBeforeFirstPush>>

\* A driver that saves and restores the stack around its pushes and pops
\* (no operator call is in flight while it does so).
NextStack ==
    \/ \E a \in PushArgs : initAndPushDynamicLayer(a)
    \/ popDynamicLayerAndDeleteMetadata
    \/ getDynamicLayerStack
    \/ setDynamicLayerStack

SpecStack == Init /\ [][NextStack]_vars

\* ------------------------------------------- replacing the stack among calls
\* A driver that enters grad transforms, calls operators, and in between
\* takes a copy of the stack and puts it back later, as
\* getDynamicLayerStack / setDynamicLayerStack allow: the stack can then be
\* shorter than the levels that are alive in kDynMetaDataSingleton.
ReplacedPushArgs ==
    {a \in PushArgs : a.key = Autograd /\ a.prev_grad_mode = Some(TRUE)}
ReplacedOpNames == {"sin", "add_"}

NextReplaced ==
    \/ \E a \in ReplacedPushArgs : initAndPushDynamicLayer(a)
    \/ popDynamicLayerAndDeleteMetadata
    \/ getDynamicLayerStack
    \/ setDynamicLayerStack
    \/ \E name \in ReplacedOpNames, first \in {RawX, held} : callBoxed(name, first)
    \/ dynamicLayerFrontFallback
    \/ dynamicLayerFrontFallbackExit
    \/ dynamicLayerBackFallback
    \/ dynamicLayerBackFallbackReturn
    \/ dynamicLayerBackFallbackUnwind
    \/ \E outcome \in KernelOutcomes : kernel(outcome)
    \/ \E keep \in BOOLEAN : callBoxedDone(keep)

SpecReplaced == Init /\ [][NextReplaced]_vars

\* ------------------------------------------------------------ second thread
\* The same two entry points run by another thread.  dynamicLayerStack and
\* the LocalDispatchKeySet are thread-local, so they act on the fields of
\* other; getGlobalDynmetaData() is the one process-wide map, and the flags
\* it points to are shared too.  The file takes no lock around the map;
\* each whole call is one step here, the interleaving in which no two
\* accesses to the map overlap.
initAndPushDynamicLayerOther(a) ==
    /\ pc = "idle"
    /\ Len(other.dynamicLayerStack) < MaxDepth
    /\ Len(flags) < MaxFlags
    /\ LET layerId == 1 + Len(other.dynamicLayerStack)
           new_layer == DynamicLayer(a.key, layerId, a.batch_size, a.randomness,
                                     a.prev_grad_mode, a.prev_fwd_grad_mode,
                                     other.tls)
           pushed == pushDynamicLayer(other.dynamicLayerStack, other.tls, new_layer)
           failed == Result("push", FALSE, "internal", 0, NoLayer, Some(a), FALSE)
       IN
       IF \/ a.key \notin {Autograd, kBatchedKey}
          \/ ~DynamicLayerCtorOk(a.key, a.prev_grad_mode, a.prev_fwd_grad_mode)
          \/ ~pushed.ok
       THEN /\ other' = [other EXCEPT !.last = failed]
            /\ UNCHANGED <<kDynMetaDataSingleton, flags>>
       ELSE IF layerId \in DOMAIN kDynMetaDataSingleton
       THEN \* data.find(layerId) == data.end() fails after the push
            /\ other' = [dynamicLayerStack |-> pushed.dls, tls |-> pushed.ks,
                         last |-> failed]
            /\ UNCHANGED <<kDynMetaDataSingleton, flags>>
       ELSE /\ other' = [dynamicLayerStack |-> pushed.dls, tls |-> pushed.ks,
                         last |-> Result("push", TRUE, "none", layerId, NoLayer,
                                         Some(a), FALSE)]
            /\ flags' = Append(flags, TRUE)
            /\ kDynMetaDataSingleton' =
                   DynmetaInsert(kDynMetaDataSingleton, layerId, Len(flags) + 1)
    /\ UNCHANGED <<dynamicLayerStack, tls, modeVars, callVars, held, savedStack,
                   last, tlsBeforeFirstPush>>

popDynamicLayerAndDeleteMetadataOther ==
    /\ pc = "idle"
    /\ LET popped == popDynamicLayer(other.dynamicLayerStack, other.tls) IN
       IF ~popped.ok
       THEN /\ other' = [other EXCEPT !.last =
                   Result("pop", FALSE, "internal", 0, NoLayer, None, FALSE)]
            /\ UNCHANGED <<kDynMetaDataSingleton, flags>>
       ELSE LET level == value_of(popped.result).layerId_ IN
            /\ other' = [dynamicLayerStack |-> popped.dls, tls |-> popped.ks,
                         last |-> Result("pop", TRUE, "none", level,
                                         popped.result, None,
                                         level \in DOMAIN kDynMetaDataSingleton)]
            /\ IF level \notin DOMAIN kDynMetaDataSingleton
               THEN UNCHANGED <<kDynMetaDataSingleton, flags>>
               ELSE /\ flags' = InvalidateHandle(flags, kDynMetaDataSingleton[level])
                    /\ kDynMetaDataSingleton' = DynmetaErase(kDynMetaDataSingleton, level)
    /\ UNCHANGED <<dynamicLayerStack, tls, modeVars, callVars, held, savedStack,
                   last, tlsBeforeFirstPush>>

\* Two threads, each entering and leaving transforms on its own stack.
NextThreads ==
    \/ \E a \in PushArgs : initAndPushDynamicLayer(a)
    \/ popDynamicLayerAndDeleteMetadata
    \/ \E a \in PushArgs : initAndPushDynamicLayerOther(a)
    \/ popDynamicLayerAndDeleteMetadataOther

SpecThreads == Init /\ [][NextThreads]_vars

\* =================================================================== claims
StackLevels == {dynamicLayerStack[i].layerId_ : i \in DOMAIN dynamicLayerStack}
BackFrames == {i \in DOMAIN frames : frames[i].kind = "back"}
\* positions of the last n entries of a call stack
LastN(callStack, n) == (Len(callStack) - n + 1)..Len(callStack)
\* the front fallback has just processed the arguments and is re-dispatching
AfterFront == pc = "call" /\ frames # <<>> /\ TopFrame.kind = "front"
\* the front fallback is about to run
BeforeFront ==
    pc = "call" /\ DispatchTarget(tls) = "front" /\ Len(dynamicLayerStack) > 0

\* C1: whatever pushes, pops and operator calls (with the pop and re-push of
\* WithoutTop inside the back fallback) have happened, the i-th layer of the
\* stack, counted from the bottom starting at 1, has layerId i.
StackLevelInvariant ==
    \A i \in DOMAIN dynamicLayerStack : dynamicLayerStack[i].layerId_ = i

\* C1 witness: a call has come back through both back fallbacks, each of
\* which popped and re-pushed its layer, and two layers are on the stack.
StackLevelWitness ==
    /\ pc = "ret" /\ frames = <<>>
    /\ Len(dynamicLayerStack) = 2

\* C2 as stated: the registry has an entry for a level exactly when a layer
\* with that level is on the stack.
RegistryIffOnStack == DOMAIN kDynMetaDataSingleton = StackLevels

\* C2 amended: the registry has an entry for a level exactly when a layer
\* with that level is on the stack or is held off the stack by the WithoutTop
\* guard of a back fallback that has not returned yet.
RegistryIffOnStackOrWithheld ==
    DOMAIN kDynMetaDataSingleton =
        StackLevels \cup {frames[i].cur_level : i \in BackFrames}

\* C2 witness: both layers are withheld by back fallbacks, the stack is
\* empty, and both registry entries are still there.
RegistryWithheldWitness ==
    /\ dynamicLayerStack = <<>>
    /\ Cardinality(BackFrames) = 2
    /\ DOMAIN kDynMetaDataSingleton = {1, 2}

\* C3, first half: a liveness flag that is false is false in every later
\* state, also after a later push has reused its level.
DeadFlagsStayDead ==
    [][\A h \in DOMAIN flags : ~flags[h] => ~flags'[h]]_vars

\* C3, second half: when the front fallback has processed the arguments, no
\* tensor argument is a wrapper whose flag is false (each such wrapper was
\* replaced by the value under it).
FrontLeavesNoDeadWrapper ==
    AfterFront =>
        \A i \in LastN(stack, Len(schema.arguments)) :
            \A tensor \in TensorsOf(stack[i]) :
                LET wrapper == maybeGetTensorWrapper(tensor) IN
                has_value(wrapper) => is_alive(value_of(wrapper), flags)

\* C3: liveness monotonicity: a flag set false by
\* popDynamicLayerAndDeleteMetadata is never true again, and every wrapper
\* holding such a flag is replaced by its raw value when the front fallback
\* handles it.
LivenessMonotonicity == DeadFlagsStayDead /\ []FrontLeavesNoDeadWrapper

\* C4: capability round trip: once every layer has been popped again, the
\* thread's key set (included and excluded) equals the key set it had just
\* before the push that left depth 0, whatever calls ran in between.
CapabilityRoundTrip ==
    (pc = "idle" /\ dynamicLayerStack = <<>>) => tls = tlsBeforeFirstPush

\* C4 witness: two layers were pushed, a call went through the fallbacks
\* (the caller kept its wrapped result), and the last layer has been popped.
CapabilityRoundTripWitness ==
    /\ pc = "idle" /\ dynamicLayerStack = <<>>
    /\ last.act = "pop" /\ last.ok
    /\ Len(held.wraps) = 2

\* C5: scoped-pop exception safety: when a failure of the re-issued call
\* leaves the back fallback, the layer stack is again the stack the back
\* fallback was entered with: the withheld layer on top, unchanged, over the
\* unchanged layers below.
ScopedPopExceptionSafety ==
    [][(pc = "exc" /\ frames # <<>> /\ TopFrame.kind = "back")
          => /\ dynamicLayerStack' = TopFrame.entry.dls
             /\ dynamicLayerStack' = Append(dynamicLayerStack, value_of(TopFrame.layer_))
             /\ pc' = "exc"]_vars

\* C5 witness: a kernel failure has propagated out of the outermost fallback
\* while two layers are on the stack, so it left two back fallbacks.
ScopedPopWitness ==
    /\ pc = "exc" /\ exc = "kernel" /\ frames = <<>>
    /\ Len(dynamicLayerStack) = 2

\* An in-place operator as the schema annotations describe it: the first
\* argument written and aliased, no other argument aliased, and a single
\* return that aliases it as written.
InPlaceAsAnnotated(sch) ==
    /\ Len(sch.arguments) >= 1
    /\ sch.arguments[1].alias_info = WriteAlias
    /\ \A i \in 2..Len(sch.arguments) : sch.arguments[i].alias_info = None
    /\ Len(sch.returns) = 1
    /\ sch.returns[1].alias_info = WriteAlias

\* the first argument of the call as the mutation check sees it: a wrapper
\* whose flag is false gives way to the value under it
FirstArgSeen ==
    LET first == stack[Len(stack) - Len(schema.arguments) + 1].t IN
    IF first.wraps # <<>> /\ ~flags[Head(first.wraps).life]
    THEN [first EXCEPT !.wraps = Tail(@)]
    ELSE first

\* C6: mutation-safety rejection: with a Differentiation layer at level L on
\* top and an in-place operator, the front fallback throws the
\* captured-mutation error when the first argument (dead wrapper made
\* transparent) is raw or wrapped at a level other than L, and does not throw
\* it when that argument is wrapped at exactly L; with a Batching layer on
\* top, or an operator that is not in-place, it never throws it.
MutationSafetyRejection ==
    [][BeforeFront =>
          LET top == dynamicLayerStack[Len(dynamicLayerStack)]
              wrappedAtL == /\ FirstArgSeen.wraps # <<>>
                            /\ Head(FirstArgSeen.wraps).level = top.layerId_
          IN
          IF top.key_ = Autograd /\ InPlaceAsAnnotated(schema)
          THEN /\ wrappedAtL => exc' # "mutation"
               /\ ~wrappedAtL => (pc' = "exc" /\ exc' = "mutation")
          ELSE exc' # "mutation"]_vars

\* C6 witness: under two Differentiation layers the front fallback has
\* rejected an in-place call whose first argument is a live wrapper of
\* level 1.
MutationSafetyWitness ==
    /\ pc = "exc" /\ exc = "mutation" /\ frames = <<>>
    /\ Len(dynamicLayerStack) = 2
    /\ LET first == stack[Len(stack) - Len(schema.arguments) + 1].t IN
       /\ first.wraps # <<>>
       /\ Head(first.wraps).level = 1
       /\ flags[Head(first.wraps).life]

\* what C7 says of one tensor: before is the argument the front fallback
\* found, after the argument it left
WrapRule(before, after) ==
    LET top == dynamicLayerStack[Len(dynamicLayerStack)]
        L == top.layerId_
        live == before.wraps # <<>> /\ flags[Head(before.wraps).life]
    IN
    IF top.key_ = Autograd
    THEN /\ (live /\ Head(before.wraps).level = L) => after = before
         /\ (\/ (before.wraps = <<>> /\ defined(before))
             \/ (live /\ Head(before.wraps).level < L))
               => /\ after.wraps # <<>>
                  /\ Head(after.wraps) = [level |-> L, life |-> kDynMetaDataSingleton[L]]
                  /\ wrapper_value(after) = before
    ELSE \/ after = before
         \/ (before.wraps # <<>> /\ after = wrapper_value(before))

\* C7: wrap idempotence at a level: when the front fallback goes on to
\* re-dispatch with a Differentiation layer at level L on top, an argument
\* that is a live wrapper at level L is left as it is, a raw argument or a
\* live wrapper at a lower level becomes a new level-L wrapper around the
\* unchanged old argument; with a Batching layer on top no wrapper is made.
WrapIdempotence ==
    [][(BeforeFront /\ pc' = "call") =>
          \A i \in LastN(stack, Len(schema.arguments)) :
              /\ stack[i].tag = "Tensor" => WrapRule(stack[i].t, stack'[i].t)
              /\ stack[i].tag = "List" =>
                    \A k \in DOMAIN stack[i].elems :
                        stack[i].elems[k].tag = "Tensor" =>
                            WrapRule(stack[i].elems[k].t, stack'[i].elems[k].t)]_vars

\* C7 witness: the front fallback of a level-2 Differentiation layer has
\* left an argument that is a live level-2 wrapper around a live level-1
\* wrapper.
WrapIdempotenceWitness ==
    /\ AfterFront
    /\ Len(dynamicLayerStack) = 2
    /\ \E i \in LastN(stack, Len(schema.arguments)) :
          /\ stack[i].tag = "Tensor"
          /\ Len(stack[i].t.wraps) = 2
          /\ stack[i].t.wraps[1].level = 2 /\ flags[stack[i].t.wraps[1].life]
          /\ stack[i].t.wraps[2].level = 1 /\ flags[stack[i].t.wraps[2].life]

\* the call in flight is the one of the nesting scenario: it entered the
\* front fallback over <<Batching, Differentiation>> with one raw argument
NestingScenario ==
    /\ frames # <<>>
    /\ frames[1].kind = "front"
    /\ Len(frames[1].entry.dls) = 2
    /\ frames[1].entry.dls[1].key_ = kBatchedKey
    /\ frames[1].entry.dls[2].key_ = Autograd
    /\ Len(schema.arguments) = 1
    /\ schema.arguments[1].type = "Tensor"
    /\ frames[1].entry.stack[Len(frames[1].entry.stack)].t.wraps = <<>>
    /\ defined(frames[1].entry.stack[Len(frames[1].entry.stack)].t)

\* C8, during the call: once the first front fallback has run, the argument
\* it hands on is the raw argument wrapped at level 2, and every activation
\* that works for the Batching layer (entered with one layer on the stack)
\* comes after that.
NestingWrapsFirst ==
    (NestingScenario /\ (pc = "call" \/ Len(frames) > 1)) =>
        LET raw == frames[1].entry.stack[Len(frames[1].entry.stack)].t
            handed == IF Len(frames) = 1 THEN stack ELSE frames[2].entry.stack
        IN
        /\ handed[Len(handed)].t =
               [base |-> raw.base,
                wraps |-> <<[level |-> 2, life |-> kDynMetaDataSingleton[2]]>>]
        /\ \A j \in DOMAIN frames : Len(frames[j].entry.dls) < 2 => j > 2

\* C8, after the pops: with every layer popped no transform is active.
NoTransformAfterPops ==
    (pc = "idle" /\ dynamicLayerStack = <<>>) => ~areTransformsActive

\* C8, the caller's value: the tensor the caller holds changes only when the
\* caller itself stores the result of a finished call.
CallerValueKept ==
    [][held' # held => (pc = "ret" /\ frames = <<>> /\ pc' = "idle")]_vars

\* C8: nesting scenario: under a Batching layer (level 1) and a
\* Differentiation layer (level 2) the raw argument of a call is wrapped at
\* level 2 before anything is done for the Batching layer; after both pops
\* no transform is active and the caller still holds the raw value.
NestingScenarioHolds ==
    /\ [](NestingWrapsFirst /\ NoTransformAfterPops)
    /\ CallerValueKept

\* C8 witness: the scenario call has reached the front fallback of the
\* Batching layer.
NestingScenarioWitness ==
    /\ NestingScenario
    /\ Len(frames) = 3
    /\ frames[3].kind = "front"

\* a step of initAndPushDynamicLayer / of popDynamicLayerAndDeleteMetadata
PushStep == pc = "idle" /\ pc' = "idle" /\ last'.act = "push"
PopStep == pc = "idle" /\ pc' = "idle" /\ last'.act = "pop"

\* C9: a push of a Batching layer, or of a Differentiation layer (which
\* carries at least one previous-mode flag), on a stack of depth d appends
\* one layer of level d+1 and of that kind, returns d+1, and creates the
\* registry entry of level d+1 with a true flag; level d+1 had no registry
\* entry before.
PushAssignsNextLevel ==
    [][(PushStep /\ value_of(last'.arg).key \in {Autograd, kBatchedKey}
                 /\ DynamicLayerCtorOk(value_of(last'.arg).key,
                                       value_of(last'.arg).prev_grad_mode,
                                       value_of(last'.arg).prev_fwd_grad_mode))
          => LET d == Len(dynamicLayerStack) IN
             /\ last'.ok /\ last'.level = d + 1
             /\ Len(dynamicLayerStack') = d + 1
             /\ SubSeq(dynamicLayerStack', 1, d) = dynamicLayerStack
             /\ dynamicLayerStack'[d + 1].layerId_ = d + 1
             /\ dynamicLayerStack'[d + 1].key_ = value_of(last'.arg).key
             /\ (d + 1) \notin DOMAIN kDynMetaDataSingleton
             /\ DOMAIN kDynMetaDataSingleton' = DOMAIN kDynMetaDataSingleton \cup {d + 1}
             /\ \A l \in DOMAIN kDynMetaDataSingleton :
                   kDynMetaDataSingleton'[l] = kDynMetaDataSingleton[l]
             /\ flags'[kDynMetaDataSingleton'[d + 1]] = TRUE
             /\ \A h \in DOMAIN flags : flags'[h] = flags[h]]_vars

\* C9 witness: a push has returned level 2 after an earlier layer had been
\* popped (its flag is false), so a level number was used again.
PushWitness ==
    /\ pc = "idle" /\ last.act = "push" /\ last.ok /\ last.level = 2
    /\ \E h \in DOMAIN flags : ~flags[h]

\* C10: a pop on a non-empty stack removes exactly the top layer and returns
\* it; if the registry has an entry for its level, that flag becomes false
\* and the entry is erased, and if it has none nothing else changes and no
\* error is raised.  A pop on an empty stack fails with an
\* internal-consistency error and changes neither the stack, the registry,
\* the flags nor the key set.
PopInvalidates ==
    [][PopStep =>
          IF dynamicLayerStack # <<>>
          THEN LET top == dynamicLayerStack[Len(dynamicLayerStack)]
                   L == top.layerId_
               IN
               /\ last'.ok /\ last'.layer = Some(top)
               /\ dynamicLayerStack' =
                      SubSeq(dynamicLayerStack, 1, Len(dynamicLayerStack) - 1)
               /\ IF L \in DOMAIN kDynMetaDataSingleton
                  THEN /\ flags'[kDynMetaDataSingleton[L]] = FALSE
                       /\ \A h \in DOMAIN flags \ {kDynMetaDataSingleton[L]} :
                             flags'[h] = flags[h]
                       /\ DOMAIN kDynMetaDataSingleton' =
                              DOMAIN kDynMetaDataSingleton \ {L}
                       /\ \A l \in DOMAIN kDynMetaDataSingleton' :
                             kDynMetaDataSingleton'[l] = kDynMetaDataSingleton[l]
                  ELSE UNCHANGED <<kDynMetaDataSingleton, flags>>
          ELSE /\ ~last'.ok /\ last'.err = "internal"
               /\ UNCHANGED <<dynamicLayerStack, kDynMetaDataSingleton, flags, tls>>]_vars

\* C10 witness: a pop has returned a layer whose level had no registry entry
\* (the driver had put back a saved stack).
PopWithoutMetadataWitness ==
    /\ pc = "idle" /\ last.act = "pop" /\ last.ok /\ ~last.found

\* steps of the back fallback: it enters (WithoutTop pops the top layer) and
\* it leaves, by return or by unwinding (WithoutTop pushes the layer again)
BackEnterStep ==
    /\ pc = "call" /\ pc' = "call"
    /\ Len(frames') = Len(frames) + 1
    /\ frames'[Len(frames')].kind = "back"
BackLeaveStep ==
    /\ pc \in {"ret", "exc"} /\ frames # <<>> /\ TopFrame.kind = "back"
    /\ Len(frames') = Len(frames) - 1

\* C11: the front and back boundary keys are put in the included set by a
\* push that takes the stack from 0 to 1 layers and taken out of it by a pop
\* that takes it from 1 to 0 layers; a push or pop at another depth leaves
\* the key set alone.  This covers initAndPushDynamicLayer,
\* popDynamicLayerAndDeleteMetadata, and the pop and re-push of WithoutTop:
\* the key set right after its pop is the one the ForceDispatchKeyGuard saved
\* (depth 1) or the one keysetToReturnToDynamicLayerFront started from
\* (deeper), and its re-push acts on the key set the guards left.
BoundaryKeysFollowDepth ==
    [][/\ (PushStep /\ last'.ok) =>
            (tls' = IF Len(dynamicLayerStack) = 0
                    THEN setDynamicLayerFrontBackKeysIncluded(tls, TRUE)
                    ELSE tls)
       /\ (PopStep /\ last'.ok) =>
            (tls' = IF Len(dynamicLayerStack) = 1
                    THEN setDynamicLayerFrontBackKeysIncluded(tls, FALSE)
                    ELSE tls)
       /\ BackEnterStep =>
            (IF Len(dynamicLayerStack) = 1
             THEN frames'[Len(frames')].tls_guard =
                      Some(setDynamicLayerFrontBackKeysIncluded(tls, FALSE))
             ELSE /\ frames'[Len(frames')].tls_guard = None
                  /\ tls' = keysetToReturnToDynamicLayerFront(tls))
       /\ BackLeaveStep =>
            (IF Len(dynamicLayerStack) = 0
             THEN tls' = setDynamicLayerFrontBackKeysIncluded(
                             value_of(TopFrame.tls_guard), TRUE)
             ELSE tls' = tls)]_vars

\* C11 witness: inside a call, the back fallback of the only layer has
\* returned: WithoutTop took the stack from 1 to 0 and back to 1, and both
\* boundary keys are included again.
BoundaryKeysWitness ==
    /\ pc = "ret" /\ Len(frames) = 1 /\ TopFrame.kind = "front"
    /\ Len(dynamicLayerStack) = 1
    /\ {kDynamicLayerFrontModeKey, kDynamicLayerBackModeKey} \subseteq tls.included

\* a push with arguments that meet the assertions on the arguments
WellFormedPush(a) ==
    /\ a.key \in {Autograd, kBatchedKey}
    /\ DynamicLayerCtorOk(a.key, a.prev_grad_mode, a.prev_fwd_grad_mode)

\* C12, first half: a step changes the layer stack of at most one thread.
ThreadStacksSeparate ==
    [][\/ dynamicLayerStack' = dynamicLayerStack
       \/ other'.dynamicLayerStack = other.dynamicLayerStack]_vars

\* C12, second half: a well-formed push on a thread whose stack has depth d
\* succeeds and returns d+1, whatever the other thread has pushed.
ThreadPushesSucceed ==
    [][/\ (PushStep /\ other' = other /\ WellFormedPush(value_of(last'.arg)))
            => (last'.ok /\ last'.level = Len(dynamicLayerStack) + 1)
       /\ (other' # other /\ other'.last.act = "push"
              /\ WellFormedPush(value_of(other'.last.arg)))
            => (/\ other'.last.ok
                /\ other'.last.level = Len(other.dynamicLayerStack) + 1)]_vars

\* C12: with two threads that each own a layer stack, under every
\* interleaving of pushes and pops no operation of one thread changes the
\* other thread's stack, and every push on a stack of depth d succeeds and
\* returns level d+1 without coordination with the other thread.
ThreadsIndependent == ThreadStacksSeparate /\ ThreadPushesSucceed

\* the layers on the stack when the call in flight entered its first handler
EntryLayers == frames[1].entry.dls
\* the call in flight is being dispatched to the backend kernel
AtKernel == pc = "call" /\ DispatchTarget(tls) = "kernel"

\* C13, the way down: the activations of a call alternate front, back,
\* front, back, ...; the k-th front fallback and the back fallback that
\* follows it are entered with the bottom n-k+1 of the n layers the call
\* started with, and while they are active the stack holds the bottom layers
\* that no back fallback has removed yet.
OnionFrames ==
    frames # <<>> =>
        LET n == Len(EntryLayers) IN
        /\ n >= 1
        /\ \A j \in DOMAIN frames :
              LET k == (j + 1) \div 2 IN
              /\ frames[j].kind = (IF j % 2 = 1 THEN "front" ELSE "back")
              /\ k <= n
              /\ frames[j].entry.dls = SubSeq(EntryLayers, 1, n - k + 1)
        /\ dynamicLayerStack = SubSeq(EntryLayers, 1, n - (Len(frames) \div 2))

\* C13, the innermost dispatch: the kernel of a call that went through the
\* fallbacks runs after exactly n front and n back activations, with an
\* empty stack and under the key set saved before the first push.
OnionInnermost ==
    (AtKernel /\ frames # <<>>) =>
        /\ Len(frames) = 2 * Len(EntryLayers)
        /\ dynamicLayerStack = <<>>
        /\ tls = tlsBeforeFirstPush

\* C13, the way out: when the outermost front fallback is left, the stack
\* holds the same layers in the same order as when it was entered.
OnionRestores ==
    [][(Len(frames) = 1 /\ frames' = <<>>)
          => dynamicLayerStack' = EntryLayers]_vars

\* C13: onion traversal: a call made with n >= 1 layers on the stack is
\* handled once per layer from the top layer down, its kernel runs with the
\* stack empty under the key set from before the first push, and the stack
\* is the same n layers again when the outermost front fallback returns.
OnionTraversal == [](OnionFrames /\ OnionInnermost) /\ OnionRestores

\* C13 witness: a call made over two layers has reached its kernel through
\* front, back, front, back.
OnionWitness ==
    /\ AtKernel
    /\ Len(frames) = 4
    /\ Len(EntryLayers) = 2

\* a front fallback activation is left, by return or by exception
FrontLeaveStep ==
    /\ pc \in {"ret", "exc"} /\ frames # <<>> /\ TopFrame.kind = "front"
    /\ Len(frames') = Len(frames) - 1

\* C14: when the front fallback is left, because its re-issued call
\* returned or because it threw, the thread's key set (included and
\* excluded) is the key set the front fallback was entered with, whatever
\* the back fallback and the nested fallbacks forced in between; a front
\* fallback that throws before re-issuing the call has not changed it.
FrontRestoresKeySet ==
    [][/\ FrontLeaveStep => tls' = TopFrame.entry.tls
       /\ (BeforeFront /\ pc' = "exc") => tls' = tls]_vars

\* C14 witness: an exception is on its way out through the back fallback
\* of the top layer after the front fallback of the layer below was left:
\* the key set is again the one that back fallback had forced, with the
\* front key included.
FrontRestoresWitness ==
    /\ pc = "exc" /\ exc = "kernel"
    /\ Len(frames) = 2 /\ TopFrame.kind = "back"
    /\ kDynamicLayerFrontModeKey \in tls.included

\* C15: the back fallback re-issues the call under a key set chosen by the
\* depth of the stack once WithoutTop has removed the top layer: with the
\* stack then empty, exactly the key set captured when the removed layer was
\* pushed; otherwise the key set of that moment with the front key added to
\* the included set and taken out of the excluded set, so that the next
\* dispatch enters the front fallback for the layer below.
BackReissueKeySet ==
    [][BackEnterStep =>
          IF Len(dynamicLayerStack) = 1
          THEN /\ dynamicLayerStack' = <<>>
               /\ tls' = tlsBeforeFirstPush
          ELSE /\ dynamicLayerStack' # <<>>
               /\ tls'.included = tls.included \cup {kDynamicLayerFrontModeKey}
               /\ tls'.excluded = tls.excluded \ {kDynamicLayerFrontModeKey}
               /\ DispatchTarget(tls') = "front"]_vars

\* C15 witness: the back fallback of the bottom layer, reached after the
\* fallbacks of the layer above, has re-issued the call under the key set of
\* a thread that had keys included and excluded before the first push.
BackReissueWitness ==
    /\ pc = "call" /\ Len(frames) = 4 /\ TopFrame.kind = "back"
    /\ dynamicLayerStack = <<>>
    /\ tls = [included |-> {ADInplaceOrView, BackendSelect},
              excluded |-> {"AutogradOther"}]

\* the transform-boundary keys: front, back, grad wrapper, batched,
\* in-place-or-view and the autograd keys
TransformBoundaryKeys ==
    {kDynamicLayerFrontModeKey, kDynamicLayerBackModeKey, kGradWrapperKey,
     kBatchedKey, ADInplaceOrView, "AutogradCPU", "AutogradOther"}

\* the keys of a kind of layer
KeysOfKind(key) ==
    IF key = kBatchedKey THEN {kBatchedKey}
    ELSE {ADInplaceOrView, "AutogradCPU", "AutogradOther"}

\* C16: the key set under which the front fallback re-issues the call has
\* every transform-boundary key excluded and not included, except that the
\* keys of the top layer's kind are not excluded (batched for a Batching
\* layer; autograd and in-place-or-view for a Differentiation layer) and the
\* back key is included and not excluded; for a Batching layer the vmap
\* mode key is included as well.  The front key is therefore excluded and
\* the next dispatch does not enter the front fallback again.
FrontReissueKeySet ==
    [][(BeforeFront /\ pc' = "call") =>
          LET top == dynamicLayerStack[Len(dynamicLayerStack)] IN
          /\ \A key \in TransformBoundaryKeys :
                IF key = kDynamicLayerBackModeKey
                THEN key \in tls'.included /\ key \notin tls'.excluded
                ELSE IF key \in KeysOfKind(top.key_)
                THEN key \notin tls'.included /\ key \notin tls'.excluded
                ELSE key \notin tls'.included /\ key \in tls'.excluded
          /\ top.key_ = kBatchedKey => kVmapModeKey \in tls'.included
          /\ DispatchTarget(tls') # "front"]_vars

\* C16 witness: the front fallback of a Batching layer has re-issued a
\* call on a thread that had in-place-or-view included and an autograd key
\* excluded before: the vmap mode key is included now.
FrontReissueWitness ==
    /\ AfterFront /\ Len(frames) = 1
    /\ kVmapModeKey \in tls.included
    /\ BackendSelect \in tls.included

\* the tensors among the arguments of the call in flight, top-level or
\* inside a list
ArgTensors ==
    UNION {TensorsOf(stack[i]) : i \in LastN(stack, Len(schema.arguments))}
\* tensor is a wrapper whose flag is true and whose level is above L
LiveAbove(tensor, L) ==
    /\ tensor.wraps # <<>>
    /\ flags[Head(tensor.wraps).life]
    /\ Head(tensor.wraps).level > L
\* the front fallback is about to run with a Differentiation layer on top
\* and an argument that is a live wrapper of a level above that layer
EscapedArgAtFront ==
    /\ BeforeFront
    /\ dynamicLayerStack[Len(dynamicLayerStack)].key_ = Autograd
    /\ \E tensor \in ArgTensors :
          LiveAbove(tensor, dynamicLayerStack[Len(dynamicLayerStack)].layerId_)

\* C17 as stated: the front fallback, with a Differentiation layer of
\* level L on top, given a tensor argument that is a live wrapper of a level
\* above L, throws an internal-consistency error and does not re-issue the
\* call.
EscapedArgInternalError ==
    [][EscapedArgAtFront =>
          (pc' = "exc" /\ exc' = "internal" /\ frames' = frames)]_vars

\* C17 amended: in that case the front fallback does not re-issue the call;
\* it throws the captured-mutation error when the operator is in-place and
\* its first argument (dead wrapper made transparent) is not a wrapper of
\* level L, because that check runs first, and an internal-consistency error
\* otherwise.
EscapedArgRejected ==
    [][EscapedArgAtFront =>
          LET L == dynamicLayerStack[Len(dynamicLayerStack)].layerId_
              wrappedAtL == /\ FirstArgSeen.wraps # <<>>
                            /\ Head(FirstArgSeen.wraps).level = L
          IN
          /\ pc' = "exc"
          /\ frames' = frames
          /\ exc' = (IF InPlaceAsAnnotated(schema) /\ ~wrappedAtL
                     THEN "mutation" ELSE "internal")]_vars

\* C17 witness: the front fallback of a level-1 Differentiation layer has
\* thrown the internal-consistency error on an argument that is a live
\* wrapper of level 2 (the driver had put back a stack without layer 2).
EscapedArgWitness ==
    /\ pc = "exc" /\ exc = "internal" /\ frames = <<>>
    /\ Len(dynamicLayerStack) = 1
    /\ dynamicLayerStack[1].key_ = Autograd
    /\ \E tensor \in ArgTensors : LiveAbove(tensor, 1)

\* what C18 says of one tensor: orig is the argument, dup its duplicate
\* after the unwrapping for level L
UnwrapRule(orig, dup, L) ==
    /\ (orig.wraps # <<>> /\ Head(orig.wraps).level = L)
          => dup = [base |-> orig.base, wraps |-> Tail(orig.wraps)]
    /\ (orig.wraps = <<>> \/ Head(orig.wraps).level < L) => dup = orig

\* the same for one stack entry: a tensor, a list with tensors in it, or
\* anything else
UnwrapRuleIValue(orig, dup, L) ==
    IF orig.tag = "Tensor"
    THEN dup.tag = "Tensor" /\ UnwrapRule(orig.t, dup.t, L)
    ELSE IF orig.tag = "List"
    THEN /\ dup.tag = "List"
         /\ Len(dup.elems) = Len(orig.elems)
         /\ \A k \in DOMAIN orig.elems :
               IF orig.elems[k].tag = "Tensor"
               THEN /\ dup.elems[k].tag = "Tensor"
                    /\ UnwrapRule(orig.elems[k].t, dup.elems[k].t, L)
               ELSE dup.elems[k] = orig.elems[k]
    ELSE dup = orig

\* C18, in the back fallback: for a Differentiation layer of level L the
\* call stack grows by one duplicate of the argument range, every entry that
\* was there (the original arguments and the lists among them included) is
\* as before, and each duplicate follows the unwrap rule; for a Batching
\* layer the call stack is as before.
BackDuplicatesAndUnwraps ==
    [][BackEnterStep =>
          LET top == dynamicLayerStack[Len(dynamicLayerStack)]
              n == Len(schema.arguments)
              m == Len(stack)
          IN
          IF top.key_ = Autograd
          THEN /\ Len(stack') = m + n
               /\ SubSeq(stack', 1, m) = stack
               /\ \A i \in 1..n :
                     UnwrapRuleIValue(stack[m - n + i], stack'[m + i], top.layerId_)
          ELSE stack' = stack]_vars

\* tensors the unwrap lambda can be given: raw, undefined, under one or
\* two wrappers of any levels
UnwrapInputs ==
    LET Wrappers == [level : 1..(MaxDepth + 1), life : {1}] IN
    [base : {"x", "undef"},
     wraps : {<<>>} \cup {<<w>> : w \in Wrappers}
                 \cup {<<w, v>> : w \in Wrappers, v \in Wrappers}]

\* C18, the unwrap lambda by itself: a defined tensor wrapped at exactly L
\* gives the value under the wrapper, a raw one or one wrapped at a lower
\* level gives itself, an undefined one gives itself.
UnwrapOnlyAtLevel ==
    \A tensor \in UnwrapInputs, L \in 1..MaxDepth :
        LET r == unwrap(tensor, L) IN
        IF ~defined(tensor) THEN r = Ok(tensor)
        ELSE (tensor.wraps = <<>> \/ Head(tensor.wraps).level <= L)
                 => (r.ok /\ UnwrapRule(tensor, r.t, L))

\* C18: for a Differentiation layer at level L the back fallback appends a
\* duplicate of the argument range and unwraps in the duplicate only:
\* duplicated tensors (top-level or in a list) wrapped at exactly L become
\* the value under the wrapper, those raw or wrapped lower stay, and the
\* original range with the contents of its lists stays as it was; for a
\* Batching layer nothing is duplicated or unwrapped.
UnwrapInDuplicateOnly == BackDuplicatesAndUnwraps /\ []UnwrapOnlyAtLevel

\* C18 witness: the back fallback of a level-2 Differentiation layer has
\* duplicated a list argument whose tensor is a level-2 wrapper around a
\* level-1 wrapper: the duplicate holds the level-1 wrapper, the original
\* list still the level-2 wrapper.
UnwrapInDuplicateWitness ==
    /\ pc = "call" /\ frames # <<>> /\ TopFrame.kind = "back"
    /\ TopFrame.cur_key = Autograd /\ TopFrame.cur_level = 2
    /\ Len(stack) = 3
    /\ stack[2].tag = "List" /\ stack[3].tag = "List"
    /\ Len(stack[2].elems[1].t.wraps) = 2
    /\ stack[2].elems[1].t.wraps[1].level = 2
    /\ stack[3].elems[1].t = wrapper_value(stack[2].elems[1].t)

\* the back fallback of a Differentiation layer returns normally
BackReturnStep ==
    /\ pc = "ret" /\ pc' = "ret"
    /\ frames # <<>> /\ TopFrame.kind = "back" /\ TopFrame.cur_key = Autograd
    /\ Len(frames') = Len(frames) - 1

\* C19: when the back fallback of a Differentiation layer of level L
\* returns normally, each defined tensor among the results is a new
\* level-L wrapper around what the inner call returned, an undefined result
\* is still undefined, and the call stack is what lay below the arguments
\* when the back fallback was entered followed by the results: the
\* original arguments and their duplicates are gone, and the length is the
\* entry length minus the number of arguments plus the number of results.
BackWrapsResults ==
    [][BackReturnStep =>
          LET L == TopFrame.cur_level
              e == TopFrame.entry.stack
              n == Len(schema.arguments)
              r == Len(schema.returns)
              below == Len(e) - n
          IN
          /\ Len(stack') = Len(e) - n + r
          /\ SubSeq(stack', 1, below) = SubSeq(e, 1, below)
          /\ \A i \in 1..r :
                LET inner == stack[Len(stack) - r + i]
                    result == stack'[below + i]
                IN
                /\ result.tag = inner.tag
                /\ inner.tag = "Tensor" =>
                      IF defined(inner.t)
                      THEN /\ result.t.wraps # <<>>
                           /\ Head(result.t.wraps) =
                                  [level |-> L, life |-> kDynMetaDataSingleton[L]]
                           /\ flags[Head(result.t.wraps).life]
                           /\ wrapper_value(result.t) = inner.t
                      ELSE result.t = inner.t]_vars

\* C19 witness: under two Differentiation layers the back fallback of
\* level 1 has returned the two results of max: the call stack holds the
\* entry below the arguments, the argument kept by the back fallback of
\* level 2, and two level-1 wrappers of the new tensors.
BackWrapsResultsWitness ==
    /\ pc = "ret" /\ Len(frames) = 3 /\ TopFrame.kind = "front"
    /\ op = Some("max")
    /\ Len(stack) = 4
    /\ \A i \in {3, 4} :
          stack[i].t = [base |-> "y",
                        wraps |-> <<[level |-> 1, life |-> kDynMetaDataSingleton[1]]>>]

\* the layer of a back fallback activation captured that the mode was off
\* before the transform was entered
CapturedGradOff(frame) ==
    frame.cur_key = Autograd /\ value_of(frame.layer_).prevGradMode_ = Some(FALSE)
CapturedFwGradOff(frame) ==
    frame.cur_key = Autograd /\ value_of(frame.layer_).prevFwdGradMode_ = Some(FALSE)

\* C20, during the inner call: while a back fallback is active whose
\* Differentiation layer captured grad mode (forward grad mode) as off, that
\* mode is off.
GradModeOffInside ==
    \A j \in BackFrames :
        /\ CapturedGradOff(frames[j]) => ~gradMode
        /\ CapturedFwGradOff(frames[j]) => ~fwGradMode

\* C20, entering and leaving: a back fallback whose layer did not capture
\* the mode as off (captured on, captured nothing, or a Batching layer)
\* leaves the mode as it is when it re-issues the call; every back fallback
\* that is left, by return or by exception, leaves both modes as they were
\* when it was entered.
GradModeScoped ==
    [][/\ BackEnterStep =>
             LET frame == frames'[Len(frames')] IN
             /\ gradMode' = (IF CapturedGradOff(frame) THEN FALSE ELSE gradMode)
             /\ fwGradMode' = (IF CapturedFwGradOff(frame) THEN FALSE ELSE fwGradMode)
       /\ BackLeaveStep =>
             /\ gradMode' = TopFrame.entry.gradMode
             /\ fwGradMode' = TopFrame.entry.fwGradMode
             /\ ~CapturedGradOff(TopFrame) => gradMode' = gradMode
             /\ ~CapturedFwGradOff(TopFrame) => fwGradMode' = fwGradMode]_vars

\* C20: in the back fallback of a Differentiation layer that captured grad
\* mode (forward grad mode) as present and false, the mode is off for the
\* whole re-issued call and has its entry value again when the back
\* fallback is left, by return or by exception; with the captured flag true
\* or absent, or a Batching layer, the back fallback does not change the
\* mode.
GradModeOverride == []GradModeOffInside /\ GradModeScoped

\* C20 witness: a kernel exception has left the back fallback of a layer
\* that captured both modes as off, on a thread where both were on: they
\* are on again.
GradModeOverrideWitness ==
    /\ pc = "exc" /\ exc = "kernel"
    /\ Len(frames) = 1 /\ TopFrame.kind = "front"
    /\ Len(dynamicLayerStack) = 1
    /\ dynamicLayerStack[1].prevGradMode_ = Some(FALSE)
    /\ dynamicLayerStack[1].prevFwdGradMode_ = Some(FALSE)
    /\ gradMode /\ fwGradMode

\* C21, the withheld layer: while a back fallback holds its layer off the
\* stack, the level of that layer has an entry in kDynMetaDataSingleton
\* whose flag is true (getLifeHandleForLevel succeeds), and
\* areTransformsActive() is true, also when the stack is empty.
WithheldLayerAlive ==
    \A j \in BackFrames :
        /\ hasLifeHandleForLevel(frames[j].cur_level)
        /\ flags[getLifeHandleForLevel(frames[j].cur_level)]
        /\ areTransformsActive

\* C21, the wrappers: no step taken while a back fallback is active changes
\* an entry or a flag, so a wrapper that was alive when the layer was
\* removed is alive during the whole re-issued call.
RegistryFixedDuringCall ==
    [][BackFrames # {} => UNCHANGED <<kDynMetaDataSingleton, flags>>]_vars

\* C21, the only writer: a step that sets a flag to false or erases an
\* entry is a step of popDynamicLayerAndDeleteMetadata.
OnlyPopInvalidates ==
    [][(\/ \E h \in DOMAIN flags : flags[h] /\ ~flags'[h]
        \/ \E l \in DOMAIN kDynMetaDataSingleton :
              l \notin DOMAIN kDynMetaDataSingleton')
          => (PopStep /\ last'.ok)]_vars

\* C21: while the back fallback holds the top layer off the stack, the
\* entry of that layer is still in kDynMetaDataSingleton with a true flag:
\* the lookup of the level succeeds, wrappers of the level stay alive, and
\* areTransformsActive() is true even with an empty stack; only
\* popDynamicLayerAndDeleteMetadata sets a flag to false or erases an entry.
WithheldLayerStaysRegistered ==
    /\ []WithheldLayerAlive
    /\ RegistryFixedDuringCall
    /\ OnlyPopInvalidates

\* C21 witness: the kernel is reached through the fallbacks of the only
\* layer, a Differentiation layer: the stack is empty, transforms are
\* active, and the argument the caller's call left on the call stack is a
\* level-1 wrapper that is alive.
WithheldLayerWitness ==
    /\ AtKernel /\ Len(frames) = 2
    /\ dynamicLayerStack = <<>>
    /\ areTransformsActive
    /\ stack[2].tag = "Tensor"
    /\ stack[2].t.wraps # <<>>
    /\ Head(stack[2].t.wraps).level = 1
    /\ is_alive(Head(stack[2].t.wraps), flags)

\* C22: when the front fallback throws the captured-mutation error, it has
\* changed nothing: the call stack with the arguments, the layer stack,
\* kDynMetaDataSingleton with its flags, and the thread's key set are as
\* they were when the front fallback was entered, and the call has not been
\* re-issued (no activation was added, the exception is on its way out).
MutationRejectionChangesNothing ==
    [][(BeforeFront /\ exc' = "mutation") =>
          /\ pc' = "exc"
          /\ frames' = frames
          /\ stack' = stack
          /\ dynamicLayerStack' = dynamicLayerStack
          /\ kDynMetaDataSingleton' = kDynMetaDataSingleton
          /\ flags' = flags
          /\ tls' = tls]_vars

\* C22 witness: the front fallback of the only layer has rejected an
\* in-place call whose first argument is a wrapper with a false flag; the
\* wrapper is still the argument on the call stack.
MutationRejectionWitness ==
    /\ pc = "exc" /\ exc = "mutation" /\ frames = <<>>
    /\ Len(dynamicLayerStack) = 1
    /\ LET first == stack[Len(stack) - Len(schema.arguments) + 1].t IN
       /\ first.wraps # <<>>
       /\ ~flags[Head(first.wraps).life]

====
